---- MODULE Spec2Model ----
(***************************************************************************)
(* A model of json_datastore.py: JsonDatastore, a document store kept in   *)
(* one JSON file that every operation reads whole and, when it mutates,    *)
(* rewrites whole.                                                         *)
(*                                                                         *)
(* Python values are modelled by representatives:                          *)
(*   - a dict is a TLA+ function whose DOMAIN is the set of its keys;      *)
(*   - an id (the 40 character hexdigest of sha1("<rand>-<epoch>")) is the *)
(*     pair <<rand, epoch>>: sha1 is taken to be injective on the strings  *)
(*     it is given, so two ids are equal exactly when rand and epoch are;  *)
(*   - a timestamp ('%Y-%m-%d %H:%M:%S', one second resolution) is the     *)
(*     number of whole seconds of the clock reading it formats;            *)
(*   - user field values are "str_a" (the str 'a'), "tuple_a" (the tuple   *)
(*     ('a',)), "set_a" (the set {'a'}) and, read back from the file,      *)
(*     "list_a" (the list ['a']).                                          *)
(* Exceptions are modelled by an err field naming the exception class.     *)
(***************************************************************************)
EXTENDS Integers, FiniteSets, Sequences, TLC

VARIABLES
    file,           \* the backing file at db_file_path
    clock,          \* the wall clock, in ticks of time.time()
    save_defaults,  \* the dict object that is the default of save's data
    last,           \* the most recent call: its arguments and its outcome
    saves,          \* successful _id-less saves since the empty store
    calls           \* per caller, the call it is in the middle of

vars == <<file, clock, save_defaults, last, saves, calls>>

(***************************************************************************)
(* Bounds.                                                                 *)
(***************************************************************************)
MaxClock == 1          \* the clock stops advancing at this tick
MaxDocs == 2           \* documents in the store, over all types
MaxDataDocs == 1       \* the same, when the documents carry user fields

\* The clock ticks of one second: the model covers the first second and the
\* first tick of the next.
TicksPerSecond == MaxClock

Types == {"person", "animal"}
UserFields == {"name"}
UserValues == {"str_a", "tuple_a", "set_a"}
ReservedFields == {"_id", "_created", "_updated"}
RandValues == {0, 1}   \* the values random.randint(0,99999) is drawn from

\* An id a caller makes up: no digest _genrate_id produces within the bounds.
ForeignId == <<-1, -1>>

\* A number a caller gives as _id (the int 5), and the string that is its key
\* in a JSON object ('5'): json.dumps writes every key of a dict as a string.
IntId == <<-2, 5>>
IntIdKey == <<-1, 5>>
GeneratedIds == RandValues \X (0..MaxClock)
AllIds == GeneratedIds \cup {ForeignId}

(***************************************************************************)
(* Python dicts.                                                           *)
(***************************************************************************)
EmptyDict == [k \in {} |-> k]

\* d[k] = v
DictSet(d, k, v) == [x \in (DOMAIN d) \cup {k} |-> IF x = k THEN v ELSE d[x]]

\* del d[k], for k a key of d
DictDel(d, k) == [x \in (DOMAIN d) \ {k} |-> d[x]]

(***************************************************************************)
(* The clock.  time.time() and time.gmtime() read the same wall clock,     *)
(* which does not go backwards and may advance between any two readings.   *)
(***************************************************************************)
Advance(t) == {u \in {t, t + 1} : u <= MaxClock}

\* time.strftime('%Y-%m-%d %H:%M:%S', time.gmtime()): the reading cut to
\* whole seconds
_get_timestamp(t) == t \div TicksPerSecond

\* hashlib.sha1("%s-%.6f" % (rand, epoch)).hexdigest()
_genrate_id(rand, epoch) == <<rand, epoch>>

(***************************************************************************)
(* JSON.  json.dumps writes a tuple as an array, so it reads back as a     *)
(* list; a set is not serializable and json.dumps raises TypeError.  The   *)
(* reserved fields hold strings, which are written and read unchanged.     *)
(***************************************************************************)
JsonValue(v) == IF v = "tuple_a" THEN "list_a" ELSE v

Serializable(v) == v # "set_a"

JsonDoc(doc) ==
    [k \in DOMAIN doc |-> IF k \in ReservedFields THEN doc[k] ELSE JsonValue(doc[k])]

DocSerializable(doc) ==
    \A k \in (DOMAIN doc) \ ReservedFields : Serializable(doc[k])

\* the key json.dumps writes for the key i of a dict
JsonKey(i) == IF i = IntId THEN IntIdKey ELSE i

\* the keys json.loads reads back of a dict c that was written
JsonKeys(c) ==
    IF IntId \in DOMAIN c THEN ((DOMAIN c) \ {IntId}) \cup {IntIdKey} ELSE DOMAIN c

\* json.loads(json.dumps(data)) for data a dict of dicts of documents.  Of a
\* dict that has both the keys 5 and '5', json.dumps writes two members
\* named "5" in the order the dict iterates, and json.loads keeps the one
\* written last: here the one of key 5 (the callers do not save such a dict,
\* see NoKeyClash).
json_dumps(data) ==
    [t \in DOMAIN data |->
        [k \in JsonKeys(data[t]) |->
            JsonDoc(data[t][IF k = IntIdKey /\ IntId \in DOMAIN data[t]
                            THEN IntId ELSE k])]]

DbSerializable(data) ==
    \A t \in DOMAIN data : \A i \in DOMAIN data[t] : DocSerializable(data[t][i])

(***************************************************************************)
(* The backing file: absent, or present with a content.  kind tells what   *)
(* the text is: "empty" is the empty text (a file just created or just     *)
(* truncated), "text" a text json.loads does not parse, "list", "string"   *)
(* and "number" the JSON text of a list, a string and a number, and        *)
(* "object" the JSON text of an object.  Of an object, obj holds the keys  *)
(* whose value is an object (the type collections) and scalars the keys    *)
(* whose value is not (it is the number 1).                                *)
(***************************************************************************)
MissingFile == [exists |-> FALSE, kind |-> "empty", obj |-> EmptyDict, scalars |-> {}]
TruncatedFile == [exists |-> TRUE, kind |-> "empty", obj |-> EmptyDict, scalars |-> {}]
ObjectFile(data, scalars) ==
    [exists |-> TRUE, kind |-> "object", obj |-> data, scalars |-> scalars]

\* a file some other program wrote
ForeignFile(kind) == [exists |-> TRUE, kind |-> kind, obj |-> EmptyDict, scalars |-> {}]

(***************************************************************************)
(* The value _db_read returns, db in the operations: kind "object" is a    *)
(* dict, with obj its keys that hold a dict and scalars its keys that hold *)
(* the number 1; the other kinds are the list, the string and the number   *)
(* json.loads makes of such a text.                                        *)
(***************************************************************************)
EmptyDb == [kind |-> "object", obj |-> EmptyDict, scalars |-> {}]

\* db.keys(), for db a dict
Keys(db) == (DOMAIN db.obj) \cup db.scalars

\* _db_read answering a failed read with a store that has a type in it
\* instead of {}
_db_read_seeded(f) ==
    IF ~f.exists \/ f.kind \in {"empty", "text"}
    THEN [EmptyDb EXCEPT !.obj = [t \in {"person"} |-> EmptyDict]]
    ELSE [kind |-> f.kind, obj |-> f.obj, scalars |-> f.scalars]

\* _db_read: open() raises IOError on a missing file and json.loads raises
\* ValueError on a text it does not parse; both are answered with {}.  Any
\* text json.loads parses is returned as the value it is.
_db_read(f) ==
    IF ~f.exists \/ f.kind \in {"empty", "text"}
    THEN EmptyDb
    ELSE [kind |-> f.kind, obj |-> f.obj, scalars |-> f.scalars]

\* _db_write(data), for data a dict: open(path, 'w') truncates the file
\* before json.dumps runs, so when json.dumps raises the file is left empty
_db_write(f, data) ==
    IF DbSerializable(data.obj)
    THEN [file |-> ObjectFile(json_dumps(data.obj), data.scalars), err |-> "none"]
    ELSE [file |-> TruncatedFile, err |-> "TypeError"]

(***************************************************************************)
(* Error messages.                                                         *)
(***************************************************************************)
NoMsg == [fmt |-> "", args |-> <<>>]
DocMsg(type, id) == [fmt |-> "No '%s' with id '%s'", args |-> <<type, id>>]
TypeMsg(type) == [fmt |-> "No document of type '%s' in DB", args |-> <<type>>]
JsonMsg == [fmt |-> "%r is not JSON serializable", args |-> <<>>]
\* the message of an AttributeError or a TypeError the interpreter raises
BuiltinMsg == [fmt |-> "builtin", args |-> <<>>]

(***************************************************************************)
(* The operations, as functions of the file and their inputs.  Each yields *)
(* the file it leaves, the exception it raises ("none" when it returns)    *)
(* and what it returns.  On a db that is not a dict, db.keys() raises      *)
(* AttributeError and db[type] raises TypeError; on a db[type] that is not *)
(* a dict, db[type].keys() raises AttributeError and db[type][id] raises   *)
(* TypeError.  No operation catches these.                                 *)
(***************************************************************************)

\* save without its call of _db_write
save_nowrite(f, type, data, rand, epoch, tCreated, tUpdated) ==
    LET d1  == IF "_id" \notin DOMAIN data
               THEN DictSet(DictSet(data, "_id", _genrate_id(rand, epoch)),
                            "_created", _get_timestamp(tCreated))
               ELSE data
        d2  == DictSet(d1, "_updated", _get_timestamp(tUpdated))
    IN  [file |-> f, err |-> "none", msg |-> NoMsg, data |-> d2, ret |-> d2]

\* save with the assignment of _created outside the test of '_id' in data
save_recreated(f, type, data, rand, epoch, tCreated, tUpdated) ==
    LET db0 == _db_read(f)
        db1 == IF type \notin Keys(db0)
               THEN [db0 EXCEPT !.obj = DictSet(@, type, EmptyDict)] ELSE db0
        d0  == IF "_id" \notin DOMAIN data
               THEN DictSet(data, "_id", _genrate_id(rand, epoch))
               ELSE data
        d1  == DictSet(d0, "_created", _get_timestamp(tCreated))
        d2  == DictSet(d1, "_updated", _get_timestamp(tUpdated))
        db2 == [db1 EXCEPT !.obj = DictSet(@, type, DictSet(@[type], d2["_id"], d2))]
        w   == _db_write(f, db2)
    IN  [file |-> w.file, err |-> w.err,
         msg |-> IF w.err = "none" THEN NoMsg ELSE JsonMsg,
         data |-> d2,
         ret |-> IF w.err = "none" THEN d2 ELSE EmptyDict]

\* save without its test of '_id' in data: every call makes a new id
save_always_new(f, type, data, rand, epoch, tCreated, tUpdated) ==
    LET db0 == _db_read(f)
        db1 == IF type \notin Keys(db0)
               THEN [db0 EXCEPT !.obj = DictSet(@, type, EmptyDict)] ELSE db0
        d1  == DictSet(DictSet(data, "_id", _genrate_id(rand, epoch)),
                       "_created", _get_timestamp(tCreated))
        d2  == DictSet(d1, "_updated", _get_timestamp(tUpdated))
        db2 == [db1 EXCEPT !.obj = DictSet(@, type, DictSet(@[type], d2["_id"], d2))]
        w   == _db_write(f, db2)
    IN  [file |-> w.file, err |-> w.err,
         msg |-> IF w.err = "none" THEN NoMsg ELSE JsonMsg,
         data |-> d2,
         ret |-> IF w.err = "none" THEN d2 ELSE EmptyDict]

\* save assigning _updated only to a document that has none
save_updated_once(f, type, data, rand, epoch, tCreated, tUpdated) ==
    LET db0 == _db_read(f)
        db1 == IF type \notin Keys(db0)
               THEN [db0 EXCEPT !.obj = DictSet(@, type, EmptyDict)] ELSE db0
        d1  == IF "_id" \notin DOMAIN data
               THEN DictSet(DictSet(data, "_id", _genrate_id(rand, epoch)),
                            "_created", _get_timestamp(tCreated))
               ELSE data
        d2  == IF "_updated" \in DOMAIN d1 THEN d1
               ELSE DictSet(d1, "_updated", _get_timestamp(tUpdated))
        db2 == [db1 EXCEPT !.obj = DictSet(@, type, DictSet(@[type], d2["_id"], d2))]
        w   == _db_write(f, db2)
    IN  [file |-> w.file, err |-> w.err,
         msg |-> IF w.err = "none" THEN NoMsg ELSE JsonMsg,
         data |-> d2,
         ret |-> IF w.err = "none" THEN d2 ELSE EmptyDict]

\* save storing the document under a newly generated key instead of under
\* data['_id']
save_keyed_anew(f, type, data, rand, epoch, tCreated, tUpdated) ==
    LET db0 == _db_read(f)
        db1 == IF type \notin Keys(db0)
               THEN [db0 EXCEPT !.obj = DictSet(@, type, EmptyDict)] ELSE db0
        d1  == IF "_id" \notin DOMAIN data
               THEN DictSet(DictSet(data, "_id", _genrate_id(rand, epoch)),
                            "_created", _get_timestamp(tCreated))
               ELSE data
        d2  == DictSet(d1, "_updated", _get_timestamp(tUpdated))
        db2 == [db1 EXCEPT !.obj = DictSet(@, type,
                                  DictSet(@[type], _genrate_id(rand, tUpdated), d2))]
        w   == _db_write(f, db2)
    IN  [file |-> w.file, err |-> w.err,
         msg |-> IF w.err = "none" THEN NoMsg ELSE JsonMsg,
         data |-> d2,
         ret |-> IF w.err = "none" THEN d2 ELSE EmptyDict]

\* save(type, data): epoch is the reading of time.time() in _genrate_id,
\* tCreated and tUpdated are the readings of the two _get_timestamp calls.
\* data is the dict after the call: save assigns into the caller's dict.
save(f, type, data, rand, epoch, tCreated, tUpdated) ==
    LET db0 == _db_read(f)
    IN  IF db0.kind # "object"
        THEN [file |-> f, err |-> "AttributeError", msg |-> BuiltinMsg,
              data |-> data, ret |-> EmptyDict]
        ELSE
    LET db1 == IF type \notin Keys(db0)
               THEN [db0 EXCEPT !.obj = DictSet(@, type, EmptyDict)] ELSE db0
        d1  == IF "_id" \notin DOMAIN data
               THEN DictSet(DictSet(data, "_id", _genrate_id(rand, epoch)),
                            "_created", _get_timestamp(tCreated))
               ELSE data
        d2  == DictSet(d1, "_updated", _get_timestamp(tUpdated))
    IN  IF type \in db1.scalars
        THEN [file |-> f, err |-> "TypeError", msg |-> BuiltinMsg,
              data |-> d2, ret |-> EmptyDict]
        ELSE
    LET db2 == [db1 EXCEPT !.obj = DictSet(@, type, DictSet(@[type], d2["_id"], d2))]
        w   == _db_write(f, db2)
    IN  [file |-> w.file, err |-> w.err,
         msg |-> IF w.err = "none" THEN NoMsg ELSE JsonMsg,
         data |-> d2,
         ret |-> IF w.err = "none" THEN d2 ELSE EmptyDict]

\* load without its except clause: the KeyError of the failed lookup, which
\* names the missing key alone, reaches the caller
load_rawkey(f, type, id) ==
    LET db == _db_read(f)
    IN  IF type \in DOMAIN db.obj /\ id \in DOMAIN db.obj[type]
        THEN [file |-> f, err |-> "none", msg |-> NoMsg, ret |-> db.obj[type][id]]
        ELSE [file |-> f, err |-> "KeyError",
              msg |-> IF type \in DOMAIN db.obj
                      THEN [fmt |-> "%s", args |-> <<id>>]
                      ELSE [fmt |-> "%s", args |-> <<type>>],
              ret |-> EmptyDict]

\* load(type, id)
load(f, type, id) ==
    LET db == _db_read(f)
    IN  IF db.kind # "object" \/ type \in db.scalars
        THEN [file |-> f, err |-> "TypeError", msg |-> BuiltinMsg, ret |-> EmptyDict]
        ELSE IF type \in DOMAIN db.obj /\ id \in DOMAIN db.obj[type]
        THEN [file |-> f, err |-> "none", msg |-> NoMsg, ret |-> db.obj[type][id]]
        ELSE [file |-> f, err |-> "KeyError", msg |-> DocMsg(type, id),
              ret |-> EmptyDict]

\* delete_doc without its call of _db_write
delete_doc_nowrite(f, type, id) ==
    LET db == _db_read(f)
    IN  IF type \in DOMAIN db.obj /\ id \in DOMAIN db.obj[type]
        THEN [file |-> f, err |-> "none", msg |-> NoMsg]
        ELSE [file |-> f, err |-> "KeyError", msg |-> DocMsg(type, id)]

\* delete_doc writing what it read back before it raises
delete_doc_rewrite(f, type, id) ==
    LET db == _db_read(f)
    IN  IF type \in DOMAIN db.obj /\ id \in DOMAIN db.obj[type]
        THEN LET w == _db_write(f, [db EXCEPT !.obj = DictSet(@, type, DictDel(@[type], id))])
             IN  [file |-> w.file, err |-> w.err,
                  msg |-> IF w.err = "none" THEN NoMsg ELSE JsonMsg]
        ELSE [file |-> _db_write(f, db).file, err |-> "KeyError",
              msg |-> DocMsg(type, id)]

\* delete_doc(type, id)
delete_doc(f, type, id) ==
    LET db == _db_read(f)
    IN  IF db.kind # "object" \/ type \in db.scalars
        THEN [file |-> f, err |-> "TypeError", msg |-> BuiltinMsg]
        ELSE IF type \in DOMAIN db.obj /\ id \in DOMAIN db.obj[type]
        THEN LET w == _db_write(f, [db EXCEPT !.obj = DictSet(@, type, DictDel(@[type], id))])
             IN  [file |-> w.file, err |-> w.err,
                  msg |-> IF w.err = "none" THEN NoMsg ELSE JsonMsg]
        ELSE [file |-> f, err |-> "KeyError", msg |-> DocMsg(type, id)]

\* list_docs(type)
list_docs(f, type) ==
    LET db == _db_read(f)
    IN  IF db.kind # "object"
        THEN [file |-> f, err |-> "TypeError", msg |-> BuiltinMsg, ret |-> {}]
        ELSE IF type \in db.scalars
        THEN [file |-> f, err |-> "AttributeError", msg |-> BuiltinMsg, ret |-> {}]
        ELSE IF type \in DOMAIN db.obj
        THEN [file |-> f, err |-> "none", msg |-> NoMsg, ret |-> DOMAIN db.obj[type]]
        ELSE [file |-> f, err |-> "KeyError", msg |-> TypeMsg(type), ret |-> {}]

\* list_types()
list_types(f) ==
    LET db == _db_read(f)
    IN  IF db.kind # "object"
        THEN [file |-> f, err |-> "AttributeError", msg |-> BuiltinMsg, ret |-> {}]
        ELSE [file |-> f, err |-> "none", msg |-> NoMsg, ret |-> Keys(db)]

\* delete_type emptying the type's collection instead of removing it
delete_type_empties(f, type) ==
    LET db == _db_read(f)
    IN  IF type \in DOMAIN db.obj
        THEN LET w == _db_write(f, [db EXCEPT !.obj = DictSet(@, type, EmptyDict)])
             IN  [file |-> w.file, err |-> w.err,
                  msg |-> IF w.err = "none" THEN NoMsg ELSE JsonMsg]
        ELSE [file |-> f, err |-> "KeyError", msg |-> TypeMsg(type)]

\* delete_type(type)
delete_type(f, type) ==
    LET db == _db_read(f)
    IN  IF db.kind # "object"
        THEN [file |-> f, err |-> "TypeError", msg |-> BuiltinMsg]
        ELSE IF type \in Keys(db)
        THEN LET w == _db_write(f, [db EXCEPT !.obj = DictDel(@, type),
                                              !.scalars = @ \ {type}])
             IN  [file |-> w.file, err |-> w.err,
                  msg |-> IF w.err = "none" THEN NoMsg ELSE JsonMsg]
        ELSE [file |-> f, err |-> "KeyError", msg |-> TypeMsg(type)]

\* the loop of delete_all_docs: delete_doc(type, id) for each id of ids, in
\* some order; it stops at the first delete_doc that raises
RECURSIVE DeleteEach(_, _, _)
DeleteEach(f, type, ids) ==
    IF ids = {} THEN [file |-> f, err |-> "none", msg |-> NoMsg]
    ELSE LET id == CHOOSE i \in ids : TRUE
             r  == delete_doc(f, type, id)
         IN  IF r.err # "none" THEN r
             ELSE DeleteEach(r.file, type, ids \ {id})

\* delete_all_docs leaving its loop after the first document
delete_all_docs_first(f, type) ==
    LET l == list_docs(f, type)
    IN  IF l.err # "none"
        THEN [file |-> f, err |-> l.err, msg |-> l.msg, ret |-> {}]
        ELSE IF l.ret = {}
        THEN [file |-> f, err |-> "none", msg |-> NoMsg, ret |-> l.ret]
        ELSE LET r == delete_doc(f, type, CHOOSE i \in l.ret : TRUE)
             IN  [file |-> r.file, err |-> r.err, msg |-> r.msg, ret |-> l.ret]

\* delete_all_docs(type): ret is the list list_docs gave
delete_all_docs(f, type) ==
    LET l == list_docs(f, type)
    IN  IF l.err # "none"
        THEN [file |-> f, err |-> l.err, msg |-> l.msg, ret |-> {}]
        ELSE LET r == DeleteEach(f, type, l.ret)
             IN  [file |-> r.file, err |-> r.err, msg |-> r.msg, ret |-> l.ret]

(***************************************************************************)
(* The state.                                                              *)
(***************************************************************************)
StoredIds(f) ==
    LET db == _db_read(f).obj
    IN  UNION {DOMAIN db[t] : t \in DOMAIN db}

StoredDocs(f) ==
    LET db == _db_read(f).obj
    IN  UNION {{db[t][i] : i \in DOMAIN db[t]} : t \in DOMAIN db}

RECURSIVE CountDocs(_, _)
CountDocs(db, ts) ==
    IF ts = {} THEN 0
    ELSE LET t == CHOOSE x \in ts : TRUE
         IN  Cardinality(DOMAIN db[t]) + CountDocs(db, ts \ {t})

TotalDocs(f) ==
    LET db == _db_read(f).obj
    IN  CountDocs(db, DOMAIN db)

\* how save's data came from the document the previous call returned
NoMod == [how |-> "none", field |-> ""]

\* last: op is the operation called, type and id its arguments (for save, id
\* is data['_id'] as the call left it and given holds the _id data came
\* with, if any), err the exception it raised, doc the dict save returned,
\* ids the list delete_all_docs went through
NoCall ==
    [op |-> "none", type |-> "", id |-> ForeignId, given |-> {},
     omitted |-> FALSE, mod |-> NoMod, err |-> "none", doc |-> EmptyDict,
     ids |-> {}]

NoSaves == [pure |-> FALSE, n |-> [t \in Types |-> 0]]

\* The callers of the store: processes that share the backing file, each
\* with its own JsonDatastore object.
Callers == {1, 2}

\* calls[p]: pc is where caller p is in its call ("idle" before it, "read"
\* after _db_read and the changes to the dict, "open" after _db_write's
\* open(path, 'w'), "done" after the call returned), base the file
\* _db_read saw, out the file as _db_write leaves it, call the record of the
\* call as last holds it once the call returns, alone whether no other call
\* was in progress when this one began, first whether no other caller had
\* written when this one wrote
Idle ==
    [pc |-> "idle", base |-> MissingFile, out |-> MissingFile, call |-> NoCall,
     alone |-> FALSE, first |-> FALSE]

NoCalls == [p \in Callers |-> Idle]

\* The store starts on a path where no file is (the tolerant read) or on a
\* file just created and still empty (tempfile.mkstemp in setUp); the
\* default of save's data is the empty dict the def statement evaluated.
Init ==
    /\ file \in {MissingFile, TruncatedFile}
    /\ clock = 0
    /\ save_defaults = EmptyDict
    /\ last = NoCall
    /\ saves = [pure |-> TRUE, n |-> [t \in Types |-> 0]]
    /\ calls = NoCalls

(***************************************************************************)
(* The data a caller passes to save.  fields are the user fields the       *)
(* caller uses.                                                            *)
(***************************************************************************)
\* a new mapping of user fields
FreshData(fields) == UNION {[S -> UserValues] : S \in SUBSET fields}

\* a document the caller holds: one the file stores (as load returns it) or
\* the one the last save returned
KnownDocs ==
    StoredDocs(file) \cup
    (IF last.op = "save" /\ last.err = "none" /\ ~last.omitted THEN {last.doc} ELSE {})

\* d itself, or d with one user field added or modified
Modified(d, fields) ==
    {d} \cup {DictSet(d, k, v) : k \in fields, v \in UserValues}

\* a mapping to which the caller gave an _id of its own
ForeignDocs(fields) == {DictSet(d, "_id", ForeignId) : d \in FreshData(fields)}

IdData(fields) ==
    (UNION {Modified(d, fields) : d \in KnownDocs}) \cup ForeignDocs(fields)

\* how data differs from the document the previous call, a save under the
\* same type, returned: it is that document ("same"), or that document with
\* one user field "added" or "modified"; "none" otherwise
ModOf(type, data) ==
    IF last.op = "save" /\ last.err = "none" /\ ~last.omitted /\ last.type = type
    THEN IF data = last.doc THEN [how |-> "same", field |-> ""]
         ELSE IF \E k \in UserFields, v \in UserValues : data = DictSet(last.doc, k, v)
         THEN LET k == CHOOSE x \in UserFields :
                           \E v \in UserValues : data = DictSet(last.doc, x, v)
              IN  [how |-> IF k \in DOMAIN last.doc THEN "modified" ELSE "added",
                   field |-> k]
         ELSE NoMod
    ELSE NoMod

SaveCall(type, data, omitted, r) ==
    [NoCall EXCEPT !.op = "save", !.type = type,
                   !.id = IF "_id" \in DOMAIN r.data THEN r.data["_id"] ELSE @,
                   !.given = IF "_id" \in DOMAIN data THEN {data["_id"]} ELSE {},
                   !.omitted = omitted, !.mod = ModOf(type, data),
                   !.err = r.err, !.doc = r.ret]

\* saves counts the saves since the empty store, while every mutation so
\* far was a successful save of a mapping without _id
CountSave(type, r) ==
    IF saves.pure /\ r.err = "none" /\ saves.n[type] < MaxDocs
    THEN [saves EXCEPT !.n[type] = @ + 1]
    ELSE NoSaves

(***************************************************************************)
(* The actions: one call of one operation by the single caller.  types     *)
(* are the type labels the caller saves under, cap is the number of        *)
(* documents the store is let to hold.                                     *)
(***************************************************************************)
\* save(type, data) with data a mapping without _id
SaveNew(types, fields, cap) ==
    \E type \in types, data \in FreshData(fields), rand \in RandValues :
    \E epoch \in Advance(clock) :
    \E tCreated \in Advance(epoch) :
    \E tUpdated \in Advance(tCreated) :
        \E r \in {save(file, type, data, rand, epoch, tCreated, tUpdated)} :
            /\ TotalDocs(r.file) <= cap
            /\ file' = r.file
            /\ clock' = tUpdated
            /\ last' = SaveCall(type, data, FALSE, r)
            /\ saves' = CountSave(type, r)
            /\ UNCHANGED <<save_defaults, calls>>

\* save(type, data) with data a mapping that has an _id
SaveWithId(types, fields, cap) ==
    \E type \in types, data \in IdData(fields) :
    \E tUpdated \in Advance(clock) :
        \E r \in {save(file, type, data, 0, clock, clock, tUpdated)} :
            /\ TotalDocs(r.file) <= cap
            /\ file' = r.file
            /\ clock' = tUpdated
            /\ last' = SaveCall(type, data, FALSE, r)
            /\ saves' = NoSaves
            /\ UNCHANGED <<save_defaults, calls>>

\* save(type): data is the default, one dict shared by every such call
SaveOmitted ==
    \E type \in Types, rand \in RandValues :
    \E epoch \in Advance(clock) :
    \E tCreated \in Advance(epoch) :
    \E tUpdated \in Advance(tCreated) :
        /\ "_id" \notin DOMAIN save_defaults
               \/ (epoch = clock /\ tCreated = clock /\ rand = 0)
        /\ \E r \in {save(file, type, save_defaults, rand, epoch, tCreated, tUpdated)} :
            /\ TotalDocs(r.file) <= MaxDocs
            /\ file' = r.file
            /\ clock' = tUpdated
            /\ save_defaults' = r.data
            /\ last' = SaveCall(type, save_defaults, TRUE, r)
            /\ saves' = NoSaves
            /\ UNCHANGED calls

\* the ids a caller asks for: the ids in the file and one that is not
ProbeIds == StoredIds(file) \cup {ForeignId}

Load ==
    \E type \in Types, id \in ProbeIds :
        \E r \in {load(file, type, id)} :
            /\ last' = [NoCall EXCEPT !.op = "load", !.type = type, !.id = id,
                                      !.err = r.err]
            /\ file' = r.file
            /\ UNCHANGED <<clock, save_defaults, saves, calls>>

DeleteDoc ==
    \E type \in Types, id \in ProbeIds :
        \E r \in {delete_doc(file, type, id)} :
            /\ last' = [NoCall EXCEPT !.op = "delete_doc", !.type = type,
                                      !.id = id, !.err = r.err]
            /\ file' = r.file
            /\ saves' = IF r.err = "KeyError" THEN saves ELSE NoSaves
            /\ UNCHANGED <<clock, save_defaults, calls>>

DeleteAllDocs ==
    \E type \in Types :
        \E r \in {delete_all_docs(file, type)} :
            /\ last' = [NoCall EXCEPT !.op = "delete_all_docs", !.type = type,
                                      !.err = r.err, !.ids = r.ret]
            /\ file' = r.file
            /\ saves' = IF r.err = "KeyError" THEN saves ELSE NoSaves
            /\ UNCHANGED <<clock, save_defaults, calls>>

DeleteType ==
    \E type \in Types :
        \E r \in {delete_type(file, type)} :
            /\ last' = [NoCall EXCEPT !.op = "delete_type", !.type = type,
                                      !.err = r.err]
            /\ file' = r.file
            /\ saves' = IF r.err = "KeyError" THEN saves ELSE NoSaves
            /\ UNCHANGED <<clock, save_defaults, calls>>

ListDocs ==
    \E type \in Types :
        \E r \in {list_docs(file, type)} :
            /\ last' = [NoCall EXCEPT !.op = "list_docs", !.type = type,
                                      !.err = r.err]
            /\ file' = r.file
            /\ UNCHANGED <<clock, save_defaults, saves, calls>>

ListTypes ==
    \E r \in {list_types(file)} :
        /\ last' = [NoCall EXCEPT !.op = "list_types", !.err = r.err]
        /\ file' = r.file
        /\ UNCHANGED <<clock, save_defaults, saves, calls>>

\* time passes between two calls
Tick ==
    /\ clock < MaxClock
    /\ clock' = clock + 1
    /\ last' = [NoCall EXCEPT !.op = "tick"]
    /\ UNCHANGED <<file, save_defaults, saves, calls>>

(***************************************************************************)
(* Spec: the caller saves mappings that carry no user field, as the tests  *)
(* of the deletions and the listings do (data={}), and the store holds up  *)
(* to MaxDocs documents.                                                   *)
(***************************************************************************)
SavePlain == SaveNew(Types, {}, MaxDocs)
SavePlainWithId == SaveWithId(Types, {}, MaxDocs)

Next ==
    \/ SavePlain
    \/ SavePlainWithId
    \/ Load
    \/ DeleteDoc
    \/ DeleteAllDocs
    \/ DeleteType
    \/ ListDocs
    \/ ListTypes
    \/ Tick

Spec == Init /\ [][Next]_vars

(***************************************************************************)
(* SpecData: the caller saves mappings with user fields under one type, as *)
(* test_save and test_load do, and the store holds up to MaxDataDocs       *)
(* documents.                                                              *)
(***************************************************************************)
SaveData == SaveNew({"person"}, UserFields, MaxDataDocs)
SaveDataWithId == SaveWithId({"person"}, UserFields, MaxDataDocs)

NextData ==
    \/ SaveData
    \/ SaveDataWithId
    \/ Load
    \/ DeleteDoc
    \/ DeleteAllDocs
    \/ DeleteType
    \/ ListDocs
    \/ ListTypes
    \/ Tick

SpecData == Init /\ [][NextData]_vars

(***************************************************************************)
(* SpecForeign: the store is opened on a file it did not write: no file,   *)
(* an empty file, a text that is not JSON, the JSON text of a list, of a   *)
(* string or of a number, or of an object that maps type labels to the     *)
(* number 1.  The caller then uses every operation.                        *)
(***************************************************************************)
ForeignFiles ==
    {MissingFile, TruncatedFile}
        \cup {ForeignFile(k) : k \in {"text", "list", "string", "number"}}
        \cup {ObjectFile(EmptyDict, S) : S \in (SUBSET Types) \ {{}}}

InitForeign ==
    /\ file \in ForeignFiles
    /\ clock = 0
    /\ save_defaults = EmptyDict
    /\ last = NoCall
    /\ saves = NoSaves
    /\ calls = NoCalls

SaveOnForeign == SaveNew(Types, {}, MaxDataDocs)
SaveWithIdOnForeign == SaveWithId(Types, {}, MaxDataDocs)

NextForeign ==
    \/ SaveOnForeign
    \/ SaveWithIdOnForeign
    \/ Load
    \/ DeleteDoc
    \/ DeleteAllDocs
    \/ DeleteType
    \/ ListDocs
    \/ ListTypes
    \/ Tick

SpecForeign == InitForeign /\ [][NextForeign]_vars

(***************************************************************************)
(* SpecKeys: the caller saves, under one type, mappings without _id and    *)
(* mappings with an _id of its own, which is a string or a number.         *)
(***************************************************************************)
\* a mapping to which the caller gave a number as _id
IntIdDocs == {[k \in {"_id"} |-> IntId]}

\* the dict save writes has no two keys that json.dumps writes as one string
NoKeyClash(type, data) ==
    LET db == _db_read(file).obj
    IN  data["_id"] = IntId => ~(type \in DOMAIN db /\ IntIdKey \in DOMAIN db[type])

\* save(type, data) with data a mapping that has an _id, string or number
SaveWithAnyId(types, cap) ==
    \E type \in types, data \in IdData({}) \cup IntIdDocs :
    \E tUpdated \in Advance(clock) :
        /\ NoKeyClash(type, data)
        /\ \E r \in {save(file, type, data, 0, clock, clock, tUpdated)} :
            /\ TotalDocs(r.file) <= cap
            /\ file' = r.file
            /\ clock' = tUpdated
            /\ last' = SaveCall(type, data, FALSE, r)
            /\ saves' = NoSaves
            /\ UNCHANGED <<save_defaults, calls>>

SaveKeys == SaveNew({"person"}, {}, MaxDocs)
SaveKeysWithId == SaveWithAnyId({"person"}, MaxDocs)

NextKeys ==
    \/ SaveKeys
    \/ SaveKeysWithId
    \/ Load
    \/ DeleteDoc
    \/ DeleteAllDocs
    \/ DeleteType
    \/ ListDocs
    \/ ListTypes
    \/ Tick

SpecKeys == Init /\ [][NextKeys]_vars

(***************************************************************************)
(* SpecOmitted: the caller calls save without data, save(type), among the  *)
(* other operations.                                                       *)
(***************************************************************************)
NextOmitted ==
    \/ SaveOmitted
    \/ Load
    \/ DeleteDoc
    \/ DeleteAllDocs
    \/ DeleteType
    \/ ListDocs
    \/ ListTypes
    \/ Tick

SpecOmitted == Init /\ [][NextOmitted]_vars

(***************************************************************************)
(* The steps of a call that writes.  Between _db_read and _db_write, and   *)
(* between open(path, 'w'), which truncates the file, and db.write, the    *)
(* other callers run and the process may stop.  What _db_write writes is   *)
(* the dict the call read and changed, whatever the file holds by then.    *)
(***************************************************************************)
\* no call of another caller is in progress
Alone(p) == \A q \in Callers \ {p} : calls[q].pc \in {"idle", "done"}

\* save(type, data), data a mapping without _id, up to its call of _db_write
SaveBegin(p, types, fields, cap) ==
    \E type \in types, data \in FreshData(fields), rand \in RandValues :
    \E epoch \in Advance(clock) :
    \E tCreated \in Advance(epoch) :
    \E tUpdated \in Advance(tCreated) :
        \E r \in {save(file, type, data, rand, epoch, tCreated, tUpdated)} :
            /\ calls[p].pc = "idle"
            /\ TotalDocs(r.file) <= cap
            /\ clock' = tUpdated
            /\ calls' = [calls EXCEPT ![p] =
                           [pc |-> "read", base |-> file, out |-> r.file,
                            call |-> SaveCall(type, data, FALSE, r),
                            alone |-> Alone(p), first |-> FALSE]]
            /\ UNCHANGED <<file, save_defaults, last, saves>>

\* mutant: the file is opened without truncation
WriteOpen_kept(p) ==
    /\ calls[p].pc = "read"
    /\ calls' = [calls EXCEPT ![p].pc = "open"]
    /\ UNCHANGED <<file, clock, save_defaults, last, saves>>

\* _db_write, line 59: open(path, 'w') leaves the file empty
WriteOpen(p) ==
    /\ calls[p].pc = "read"
    /\ file' = TruncatedFile
    /\ calls' = [calls EXCEPT ![p].pc = "open"]
    /\ UNCHANGED <<clock, save_defaults, last, saves>>

\* mutant: db.write puts back the text _db_read saw
WriteEnd_stale(p, after) ==
    /\ calls[p].pc = "open"
    /\ file' = calls[p].base
    /\ last' = calls[p].call
    /\ saves' = NoSaves
    /\ calls' = [calls EXCEPT ![p] =
                   IF after = "idle" THEN Idle
                   ELSE [@ EXCEPT !.pc = after,
                                  !.first = \A q \in Callers \ {p} :
                                                calls[q].pc # "done"]]
    /\ UNCHANGED <<clock, save_defaults>>

\* _db_write, lines 60-61: the text is written, and the call returns; the
\* caller then is in the state after
WriteEnd(p, after) ==
    /\ calls[p].pc = "open"
    /\ file' = calls[p].out
    /\ last' = calls[p].call
    /\ saves' = NoSaves
    /\ calls' = [calls EXCEPT ![p] =
                   IF after = "idle" THEN Idle
                   ELSE [@ EXCEPT !.pc = after,
                                  !.first = \A q \in Callers \ {p} :
                                                calls[q].pc # "done"]]
    /\ UNCHANGED <<clock, save_defaults>>

\* delete_doc(type, id) up to its call of _db_write; when the del raises,
\* the call ends there
DeleteDocBegin(p) ==
    \E type \in Types, id \in ProbeIds :
        \E r \in {delete_doc(file, type, id)} :
        \E call \in {[NoCall EXCEPT !.op = "delete_doc", !.type = type,
                                     !.id = id, !.err = r.err]} :
            /\ calls[p].pc = "idle"
            /\ IF r.err = "none"
               THEN /\ calls' = [calls EXCEPT ![p] =
                                  [pc |-> "read", base |-> file, out |-> r.file,
                                   call |-> call, alone |-> Alone(p),
                                   first |-> FALSE]]
                    /\ UNCHANGED last
               ELSE /\ last' = call
                    /\ UNCHANGED calls
            /\ UNCHANGED <<file, clock, save_defaults, saves>>

\* delete_type(type) up to its call of _db_write; when the del raises, the
\* call ends there
DeleteTypeBegin(p) ==
    \E type \in Types :
        \E r \in {delete_type(file, type)} :
        \E call \in {[NoCall EXCEPT !.op = "delete_type", !.type = type,
                                     !.err = r.err]} :
            /\ calls[p].pc = "idle"
            /\ IF r.err = "none"
               THEN /\ calls' = [calls EXCEPT ![p] =
                                  [pc |-> "read", base |-> file, out |-> r.file,
                                   call |-> call, alone |-> Alone(p),
                                   first |-> FALSE]]
                    /\ UNCHANGED last
               ELSE /\ last' = call
                    /\ UNCHANGED calls
            /\ UNCHANGED <<file, clock, save_defaults, saves>>

\* the process stops between open(path, 'w') and db.write: the text is
\* never written; the caller, started again, is before its next call
Crash(p) ==
    /\ calls[p].pc = "open"
    /\ calls' = [calls EXCEPT ![p].pc = "idle"]
    /\ last' = [NoCall EXCEPT !.op = "crash"]
    /\ saves' = NoSaves
    /\ UNCHANGED <<file, clock, save_defaults>>

(***************************************************************************)
(* SpecRace: two callers share the backing file, and each saves one new    *)
(* mapping; their steps interleave in every way.                           *)
(***************************************************************************)
RaceBegin == \E p \in Callers : SaveBegin(p, Types, {}, MaxDocs)
RaceOpen == \E p \in Callers : WriteOpen(p)
RaceEnd == \E p \in Callers : WriteEnd(p, "done")

NextRace ==
    \/ RaceBegin
    \/ RaceOpen
    \/ RaceEnd

SpecRace == Init /\ [][NextRace]_vars

(***************************************************************************)
(* SpecCrash: one caller saves under one type, deletes documents and       *)
(* deletes types, and its process may stop in the middle of _db_write;     *)
(* between two calls it loads and lists.                                   *)
(***************************************************************************)
\* the caller is between two calls
Quiet == calls[1].pc = "idle"

CrashSaveBegin == SaveBegin(1, {"person"}, {}, MaxDocs)
CrashDeleteDocBegin == DeleteDocBegin(1)
CrashDeleteTypeBegin == DeleteTypeBegin(1)
CrashOpen == WriteOpen(1)
CrashEnd == WriteEnd(1, "idle")
CrashStop == Crash(1)
CrashLoad == Quiet /\ Load
CrashListDocs == Quiet /\ ListDocs
CrashListTypes == Quiet /\ ListTypes

NextCrash ==
    \/ CrashSaveBegin
    \/ CrashDeleteDocBegin
    \/ CrashDeleteTypeBegin
    \/ CrashOpen
    \/ CrashEnd
    \/ CrashStop
    \/ CrashLoad
    \/ CrashListDocs
    \/ CrashListTypes

SpecCrash == Init /\ [][NextCrash]_vars

(***************************************************************************)
(* Properties.                                                             *)
(***************************************************************************)
Returned(op) == last.op = op /\ last.err = "none"

\* whether documents a and b agree on field k: both lack it, or both have
\* it with the same value
SameField(a, b, k) ==
    /\ (k \in DOMAIN a) <=> (k \in DOMAIN b)
    /\ k \in DOMAIN a => a[k] = b[k]

C2_ResaveExact ==
    [][(last'.op = "save" /\ last'.err = "none" /\
        last'.mod.how \in {"added", "modified"}) =>
           LET r == load(file', last'.type, last.doc["_id"])
               k == last'.mod.field
           IN  /\ last'.doc["_id"] = last.doc["_id"]
               /\ SameField(last'.doc, last.doc, "_created")
               /\ r.err = "none"
               /\ k \in DOMAIN r.ret
               /\ r.ret[k] = last'.doc[k]]_vars

\* C2, amended: the same, but load returns the value given to the field as
\* JSON reads it back: a tuple comes back as the list of its items.
C2_ResaveJson ==
    [][(last'.op = "save" /\ last'.err = "none" /\
        last'.mod.how \in {"added", "modified"}) =>
           LET r == load(file', last'.type, last.doc["_id"])
               k == last'.mod.field
           IN  /\ last'.doc["_id"] = last.doc["_id"]
               /\ SameField(last'.doc, last.doc, "_created")
               /\ r.err = "none"
               /\ k \in DOMAIN r.ret
               /\ r.ret[k] = IF last'.doc[k] = "tuple_a" THEN "list_a"
                             ELSE last'.doc[k]]_vars

\* a document that a save returned was saved again with its user field
\* given another value
C2_Witness ==
    /\ Returned("save")
    /\ last.mod.how = "modified"
    /\ "_created" \in DOMAIN last.doc

\* C3: when delete_doc(type, id) returns, load(type, id) raises KeyError;
\* and a load(type, id) that raises KeyError raises it after every call but
\* a save that returns and stores a document under that type and id.
C3_DeletedStaysGone ==
    [][/\ (last'.op = "delete_doc" /\ last'.err = "none") =>
              load(file', last'.type, last'.id).err = "KeyError"
       /\ file' # file =>
          \A t \in Types, i \in AllIds :
              (load(file', t, i).err = "none" /\ load(file, t, i).err = "KeyError")
                  => (last'.op = "save" /\ last'.err = "none" /\
                      last'.type = t /\ last'.id = i)]_vars

\* delete_doc has removed a document and another one is still stored
C3_Witness ==
    /\ Returned("delete_doc")
    /\ last.id # ForeignId
    /\ StoredIds(file) # {}

\* C4: when delete_all_docs(type) returns, load(type, id) raises KeyError
\* for every id list_docs(type) gave it.
C4_AllGone ==
    Returned("delete_all_docs") =>
        \A i \in last.ids : load(file, last.type, i).err = "KeyError"

\* delete_all_docs has deleted two documents
C4_Witness ==
    /\ Returned("delete_all_docs")
    /\ Cardinality(last.ids) = 2

\* C5: delete_type(type) on a stored type returns, and then type is not in
\* list_types() and list_docs(type) and load(type, id), for every id, raise
\* KeyError; on a type that is not stored it raises KeyError.
C5_DeleteType ==
    [][last'.op = "delete_type" =>
           IF last'.type \in list_types(file).ret
           THEN /\ last'.err = "none"
                /\ last'.type \notin list_types(file').ret
                /\ list_docs(file', last'.type).err = "KeyError"
                /\ \A i \in AllIds : load(file', last'.type, i).err = "KeyError"
           ELSE last'.err = "KeyError"]_vars

\* delete_type has removed a type and the other type still holds a document
C5_Witness ==
    /\ Returned("delete_type")
    /\ StoredIds(file) # {}

\* C6: from the empty store, after saves of mappings without _id alone,
\* list_types() has as many names as type labels were saved under, and
\* list_docs(type) has as many ids as saves were made under type.
C6_Counts ==
    saves.pure =>
        /\ Cardinality(list_types(file).ret)
               = Cardinality({t \in Types : saves.n[t] > 0})
        /\ \A t \in Types :
               saves.n[t] > 0 =>
                   /\ list_docs(file, t).err = "none"
                   /\ Cardinality(list_docs(file, t).ret) = saves.n[t]

\* C7: a save that returns, of a document that came with an _id stored
\* under the type, leaves list_docs(type) as it was.
C7_NoDuplicate ==
    [][(/\ last'.op = "save"
        /\ last'.err = "none"
        /\ list_docs(file, last'.type).err = "none"
        /\ last'.given # {}
        /\ last'.given \subseteq list_docs(file, last'.type).ret)
           => /\ list_docs(file', last'.type).err = "none"
              /\ list_docs(file', last'.type).ret = list_docs(file, last'.type).ret]_vars

\* the document the last save returned was saved again as it was, and the
\* store holds another document too
C7_Witness ==
    /\ Returned("save")
    /\ last.mod.how = "same"
    /\ list_docs(file, last.type).err = "none"
    /\ last.given = {last.id}
    /\ last.id \in list_docs(file, last.type).ret
    /\ TotalDocs(file) = 2

\* whether the file stores a document under type t and id i
Stored(t, i) ==
    /\ file.exists
    /\ file.kind = "object"
    /\ t \in DOMAIN file.obj
    /\ i \in DOMAIN file.obj[t]

\* C8: load(type, id) raises KeyError exactly when the file stores no
\* document under type and id, with a message that carries type and id;
\* otherwise it returns the stored document.
C8_LoadNotFound ==
    \A t \in Types, i \in AllIds :
        LET r == load(file, t, i)
        IN  IF Stored(t, i)
            THEN r.err = "none" /\ r.ret = file.obj[t][i]
            ELSE /\ r.err = "KeyError"
                 /\ Len(r.msg.args) = 2
                 /\ r.msg.args[1] = t
                 /\ r.msg.args[2] = i

\* load has raised KeyError for an id that is stored, under the other type
C8_Witness ==
    /\ last.op = "load"
    /\ last.err = "KeyError"
    /\ last.id \in StoredIds(file)
    /\ last.type \in DOMAIN _db_read(file).obj

\* C9: a delete_doc(type, id) that raises KeyError leaves the file as it
\* was: neither its content nor its existence changes.
C9_FailedDeleteNoWrite ==
    [][(last'.op = "delete_doc" /\ last'.err = "KeyError") => file' = file]_vars

\* delete_doc has raised KeyError on a store that holds documents
C9_Witness ==
    /\ last.op = "delete_doc"
    /\ last.err = "KeyError"
    /\ StoredIds(file) # {}

\* C10: on a missing file and on an empty one, list_types() is empty and
\* load, list_docs, delete_doc and delete_type raise KeyError for every type
\* and id.
C10_EmptyStore ==
    (~file.exists \/ file.kind = "empty") =>
        /\ list_types(file).err = "none"
        /\ list_types(file).ret = {}
        /\ \A t \in Types :
               /\ list_docs(file, t).err = "KeyError"
               /\ delete_type(file, t).err = "KeyError"
               /\ \A i \in AllIds :
                      /\ load(file, t, i).err = "KeyError"
                      /\ delete_doc(file, t, i).err = "KeyError"

\* load has raised KeyError on a file that is there and is empty
C10_Witness ==
    /\ last.op = "load"
    /\ last.err = "KeyError"
    /\ file.exists
    /\ file.kind = "empty"

\* whether f is a file with a content other than the JSON text of an object
\* that maps type labels to objects
NotAStore(f) == f.exists /\ (f.kind # "object" \/ f.scalars # {})

\* C11: on every file content that is not a mapping of types to mappings
\* (a text that does not parse, a list, a string, a number, a mapping with a
\* value that is no mapping), _db_read gives the empty dict, list_types()
\* returns the empty list and save returns.
C11_TolerantRead ==
    NotAStore(file) =>
        /\ _db_read(file) = EmptyDb
        /\ list_types(file).err = "none"
        /\ list_types(file).ret = {}
        /\ \A type \in Types :
               save(file, type, EmptyDict, 0, clock, clock, clock).err = "none"

\* C12: the document a save returns, and every document the file stores, has
\* the three fields _id, _created and _updated, whether or not the data came
\* with an _id or a _created.
C12_ReservedFields ==
    /\ Returned("save") => ReservedFields \subseteq DOMAIN last.doc
    /\ \A d \in StoredDocs(file) : ReservedFields \subseteq DOMAIN d

\* C13: the document returned by a save of data without _id has _created
\* equal to _updated, however the clock advances during the call.
C13_CreatedIsUpdated ==
    (Returned("save") /\ last.given = {}) =>
        last.doc["_created"] = last.doc["_updated"]

\* whether documents a and b have the same fields with the same values,
\* _updated apart
SameButUpdated(a, b) ==
    \A k \in ((DOMAIN a) \cup (DOMAIN b)) \ {"_updated"} : SameField(a, b, k)

\* C14, as stated: when the document a save returned is saved again as it
\* is, the _updated stored is the timestamp of the later save, it is later
\* than the _updated stored before, and no other stored field changes.
C14_UpdatedAdvances ==
    [][(last'.op = "save" /\ last'.err = "none" /\ last'.mod.how = "same") =>
           LET before == load(file, last'.type, last.doc["_id"]).ret
               after  == load(file', last'.type, last.doc["_id"]).ret
           IN  /\ after["_updated"] = _get_timestamp(clock')
               /\ after["_updated"] > before["_updated"]
               /\ SameButUpdated(after, before)]_vars

\* C14, amended: the same, but the _updated stored is later than or equal
\* to the one stored before: equal when both saves fall in one second.
C14_UpdatedNotBefore ==
    [][(last'.op = "save" /\ last'.err = "none" /\ last'.mod.how = "same") =>
           LET before == load(file, last'.type, last.doc["_id"]).ret
               after  == load(file', last'.type, last.doc["_id"]).ret
           IN  /\ after["_updated"] = _get_timestamp(clock')
               /\ after["_updated"] >= before["_updated"]
               /\ SameButUpdated(after, before)]_vars

\* a document with a user field was saved again, as it was returned, in a
\* later second than the one it was created in
C14_Witness ==
    /\ Returned("save")
    /\ last.mod.how = "same"
    /\ "name" \in DOMAIN last.doc
    /\ last.doc["_updated"] > last.doc["_created"]

\* C15, as stated: no two documents the file stores, under one type or
\* under two, have the same _id.
C15_GloballyUnique ==
    LET db == _db_read(file).obj
    IN  \A t1 \in DOMAIN db, t2 \in DOMAIN db :
        \A k1 \in DOMAIN db[t1], k2 \in DOMAIN db[t2] :
            (t1 # t2 \/ k1 # k2) => db[t1][k1]["_id"] # db[t2][k2]["_id"]

Present(p) == load(file, calls[p].call.type, calls[p].call.id).err = "none"

BothDone == \A p \in Callers : calls[p].pc = "done"

\* C16: after two save calls have both returned, the document of the call
\* that wrote last is in the file, and when the two calls did not overlap
\* (each began while the other was not in progress) both documents are.
C16_NoOverlapBothPresent ==
    BothDone =>
        /\ \A p \in Callers : ~calls[p].first => Present(p)
        /\ (\A p \in Callers : calls[p].alone) => \A p \in Callers : Present(p)

\* C16, the lost update: both calls read the same prior state, both wrote
\* and returned without error, and the document of the first writer is not
\* in the file.
C16_Witness ==
    /\ BothDone
    /\ calls[1].base = calls[2].base
    /\ \A p \in Callers : calls[p].call.err = "none"
    /\ \E p \in Callers : calls[p].first /\ ~Present(p)

\* C17: when the process stops between the truncation and the write of a
\* save, delete_doc or delete_type, the file is left empty, and the next
\* operation reads an empty store without error: list_types returns no
\* type, and load of every document the interrupted call had read raises
\* KeyError.
C17_CrashReadsEmpty ==
    last.op = "crash" =>
        /\ file = TruncatedFile
        /\ _db_read(file) = EmptyDb
        /\ list_types(file).err = "none"
        /\ list_types(file).ret = {}
        /\ \A type \in Types, id \in StoredIds(calls[1].base) :
               load(file, type, id).err = "KeyError"

\* C17: a delete_doc is interrupted on a store of two documents
C17_Witness ==
    /\ last.op = "crash"
    /\ calls[1].call.op = "delete_doc"
    /\ TotalDocs(calls[1].base) = 2
    /\ TotalDocs(file) = 0


\* what load(type, id) gives on file f: the document, or the exception
EntryOf(f, type, id) ==
    LET r == load(f, type, id)
    IN  [err |-> r.err, ret |-> r.ret]

\* every entry but (type, id) is stored in g as it is in f, and every type
\* but type is listed in g exactly when it is in f
OnlyEntryChanged(f, g, type, id) ==
    /\ \A t \in Types, i \in AllIds :
           <<t, i>> # <<type, id>> => EntryOf(g, t, i) = EntryOf(f, t, i)
    /\ list_types(g).ret \ {type} = list_types(f).ret \ {type}

\* C18, as stated: a call of save(type, data) changes only the entry at
\* (type, data._id); delete_doc(type, id) changes only the entry (type, id)
\* and the types listed stay as they were; delete_type(type) changes only
\* the collection of type; load, list_docs and list_types leave the file
\* as it was, missing when it was missing.
C18_Frame ==
    [][/\ last'.op = "save" =>
            OnlyEntryChanged(file, file', last'.type, last'.id)
       /\ last'.op = "delete_doc" =>
            /\ OnlyEntryChanged(file, file', last'.type, last'.id)
            /\ list_types(file').ret = list_types(file).ret
       /\ last'.op = "delete_type" =>
            /\ \A t \in Types \ {last'.type}, i \in AllIds :
                   EntryOf(file', t, i) = EntryOf(file, t, i)
            /\ list_types(file').ret \ {last'.type} =
                   list_types(file).ret \ {last'.type}
       /\ last'.op \in {"load", "list_docs", "list_types"} => file' = file
      ]_vars


\* the ids list_docs(type) returns on file f, none when it raises
IdsOf(f, type) ==
    LET r == list_docs(f, type)
    IN  IF r.err = "none" THEN r.ret ELSE {}

\* C20, as stated: a call save(type) that omits data creates a new document,
\* as save(type, {}) does: the _id it returns was not an id of the type
\* before, and list_docs(type) has one more id after the call, so that k
\* such calls leave k documents.
C20_OmittedIsFresh ==
    [][(last'.op = "save" /\ last'.omitted /\ last'.err = "none") =>
          /\ last'.id \notin IdsOf(file, last'.type)
          /\ IdsOf(file', last'.type) = IdsOf(file, last'.type) \cup {last'.id}
          /\ Cardinality(IdsOf(file', last'.type))
                 = Cardinality(IdsOf(file, last'.type)) + 1
      ]_vars


====
